---- MODULE Spec2Model ----
(***************************************************************************)
(* Model of the limit order book of src/obook.py (class OrderBook).        *)
(*                                                                         *)
(* The book is the five fields of OrderBook: the two level maps bids and   *)
(* asks (defaultdict(deque): price -> FIFO queue of Order), the two price  *)
(* lists bids_prices (descending) and asks_prices (ascending) and the      *)
(* trade log.  A call of add_limit_order / add_market_order is followed    *)
(* through its matching loops one loop step at a time (pc), so that a call *)
(* that never leaves its loop is a behaviour of the model.  The program is *)
(* single threaded: while a call is running no other operation starts.     *)
(*                                                                         *)
(* Order ids (uuid4) are modelled as fresh numbers 1, 2, ...; timestamps   *)
(* are record annotations that no decision of the code reads and are left  *)
(* out of Order and Trade.                                                 *)
(***************************************************************************)
EXTENDS Integers, Sequences, FiniteSets, TLC

\* ---- bounds -------------------------------------------------------------
MaxOrders == 3                  \* number of submissions in one behaviour
DemoExtra == 1                  \* number of submissions that follow the demo's calls

\* Prices are counted in halves (the demo of the source uses 98.5 .. 100.5):
\* 200 is the price 100.0.
Prices == {198, 200, 202}       \* limit prices offered to add_limit_order
Qtys   == {4, 10}               \* quantities offered to the submissions
Sides  == {"buy", "sell"}
Depths == {-1, 0, 1, 2}         \* depths offered to snapshot

BadSides == {"hold"}            \* a side that is neither buy nor sell
BadQtys  == {0, -4}             \* quantities that are not positive

None == 0                       \* Python None (price of a market order, no best price)

NoOrder == [id |-> 0, side |-> "none", price |-> None, qty |-> 0]

\* no snapshot() result is at hand
NoSnap == [taken |-> FALSE, depth |-> 0, bids |-> <<>>, asks |-> <<>>]

\* no call has returned yet
NoResult == [id |-> 0, error |-> "none"]

VARIABLES
    bids,          \* self.bids : price -> queue of Order (keys = DOMAIN)
    asks,          \* self.asks
    bids_prices,   \* self.bids_prices
    asks_prices,   \* self.asks_prices
    trades,        \* self.trades
    pc,            \* position of the running call: "idle", "outer", "inner"
    call,          \* the running method: "none", "limit", "market"
    order,         \* local `order` of add_limit_order / add_market_order
    m_order,       \* local `order` of the running _match_* function
    best_price,    \* local `best_price` of the running _match_* function
    result,        \* what the last submission returned: the order id, and the error raised
    snap,          \* what snapshot() returned, until the next operation
    todo,          \* driver: the calls of a script that are still to be made
    budget,        \* driver: the number of further submissions it makes
    submitted,     \* history: the submissions made so far, indexed by order id
    cleared        \* history: clear_trades has been called

vars == <<bids, asks, bids_prices, asks_prices, trades, pc, call, order,
          m_order, best_price, result, snap, todo, budget, submitted, cleared>>

\* ---- helpers: sequences and defaultdict ---------------------------------
Min(a, b) == IF a <= b THEN a ELSE b

RemoveAt(s, i) == [k \in 1..(Len(s) - 1) |-> IF k <= i THEN s[k] ELSE s[k + 1]]

InsertAt(s, i, x) ==
    [k \in 1..(Len(s) + 1) |-> IF k <= i THEN s[k] ELSE IF k = i + 1 THEN x ELSE s[k - 1]]

\* defaultdict(deque).__getitem__: a missing key is created with an empty deque
Touch(price_map, price) ==
    [k \in (DOMAIN price_map) \cup {price} |->
        IF k \in DOMAIN price_map THEN price_map[k] ELSE <<>>]

\* del price_map[price]
Del(price_map, price) == [k \in (DOMAIN price_map) \ {price} |-> price_map[k]]

\* bisect.bisect_left(a, x) with 0-based result: binary search that assumes
\* a is sorted ascending
RECURSIVE Bisect(_, _, _, _)
Bisect(a, x, lo, hi) ==
    IF lo < hi
    THEN LET mid == (lo + hi) \div 2
         IN  IF a[mid + 1] < x THEN Bisect(a, x, mid + 1, hi)
                               ELSE Bisect(a, x, lo, mid)
    ELSE lo

BisectLeft(a, x) == Bisect(a, x, 0, Len(a))

\* variant of InsertPrice: the ascending search is used for both orders
InsertPriceAscendingOnly(price_list, price, descending) ==
    LET i == BisectLeft(price_list, price)
    IN  IF i = Len(price_list) \/ price_list[i + 1] # price
        THEN InsertAt(price_list, i, price)
        ELSE price_list

\* ---- OrderBook._insert_price --------------------------------------------
InsertPrice(price_list, price, descending) ==
    IF descending
    THEN LET keys == [k \in 1..Len(price_list) |-> 0 - price_list[k]]
             i    == BisectLeft(keys, 0 - price)
         IN  IF i = Len(price_list) \/ price_list[i + 1] # price
             THEN InsertAt(price_list, i, price)
             ELSE price_list
    ELSE LET i == BisectLeft(price_list, price)
         IN  IF i = Len(price_list) \/ price_list[i + 1] # price
             THEN InsertAt(price_list, i, price)
             ELSE price_list

\* ---- OrderBook._remove_price_if_empty -----------------------------------
\* The same bisect_left is used for both sides, also on the descending list.
RemovePriceIfEmpty(price_map, price_list, price) ==
    LET m == Touch(price_map, price)
    IN  IF m[price] = <<>>
        THEN LET i == BisectLeft(price_list, price)
             IN  [map  |-> Del(m, price),
                  list |-> IF i < Len(price_list) /\ price_list[i + 1] = price
                           THEN RemoveAt(price_list, i)
                           ELSE price_list]
        ELSE [map |-> m, list |-> price_list]

\* ---- one pass of the inner loop of _match_* -----------------------------
TradeQty(o, top) == Min(o.qty, top.qty)

\* variant of FillQueue: a completely filled order stays in its queue
FillQueueKeepsZero(q_deque, trade_qty) ==
    <<[Head(q_deque) EXCEPT !.qty = @ - trade_qty]>> \o Tail(q_deque)

\* variant of FillQueue: a partially filled order is moved to the back of its queue
FillQueueRequeue(q_deque, trade_qty) ==
    LET top == [Head(q_deque) EXCEPT !.qty = @ - trade_qty]
    IN  IF top.qty = 0 THEN Tail(q_deque) ELSE Tail(q_deque) \o <<top>>

\* q_deque[0] = top with the reduced quantity; popleft() when it reached 0
FillQueue(q_deque, trade_qty) ==
    LET top == [Head(q_deque) EXCEPT !.qty = @ - trade_qty]
    IN  IF top.qty = 0 THEN Tail(q_deque) ELSE <<top>> \o Tail(q_deque)

\* variant of BuyTrade: the trade is priced at the incoming order's price
BuyTradeTakerPrice(o, top, price) ==
    [buy_id |-> o.id, sell_id |-> top.id, price |-> o.price, qty |-> TradeQty(o, top)]

\* Trade(buy_id, sell_id, price, qty): the incoming order o is the taker
BuyTrade(o, top, price)  ==
    [buy_id |-> o.id, sell_id |-> top.id, price |-> price, qty |-> TradeQty(o, top)]

SellTrade(o, top, price) ==
    [buy_id |-> top.id, sell_id |-> o.id, price |-> price, qty |-> TradeQty(o, top)]

\* ---- reporting ----------------------------------------------------------
best_bid == IF bids_prices # <<>> THEN bids_prices[1] ELSE None

best_ask == IF asks_prices # <<>> THEN asks_prices[1] ELSE None

\* ---- initial state: OrderBook.__init__ ----------------------------------
Init ==
    /\ bids = <<>>
    /\ asks = <<>>
    /\ bids_prices = <<>>
    /\ asks_prices = <<>>
    /\ trades = <<>>
    /\ pc = "idle"
    /\ call = "none"
    /\ order = NoOrder
    /\ m_order = NoOrder
    /\ best_price = None
    /\ result = NoResult
    /\ snap = NoSnap
    /\ todo = <<>>
    /\ budget = MaxOrders
    /\ submitted = <<>>
    /\ cleared = FALSE

\* ---- the driver ---------------------------------------------------------
\* Submission c is the next one the caller makes: the next call of its script,
\* or any call once the script is done.
Admitted(c) == IF todo # <<>> THEN c = Head(todo) ELSE budget > 0

Advance ==
    /\ todo' = (IF todo # <<>> THEN Tail(todo) ELSE todo)
    /\ budget' = (IF todo # <<>> THEN budget ELSE budget - 1)

\* ---- submissions --------------------------------------------------------
\* add_limit_order, lines 53-58 / 63-64: build the Order and enter _match_*
AddLimitOrder(side, price, qty) ==
    /\ pc = "idle"
    /\ Admitted([call |-> "limit", side |-> side, price |-> price, qty |-> qty])
    /\ Advance
    /\ LET o == [id |-> Len(submitted) + 1, side |-> side, price |-> price, qty |-> qty]
       IN  /\ order' = o
           /\ m_order' = o
           /\ submitted' = Append(submitted, [call |-> "limit", side |-> side,
                                              price |-> price, qty |-> qty])
    /\ call' = "limit"
    /\ pc' = "outer"
    /\ snap' = NoSnap
    /\ UNCHANGED <<bids, asks, bids_prices, asks_prices, trades, best_price, result, cleared>>

\* add_market_order, lines 70-77
AddMarketOrder(side, qty) ==
    /\ pc = "idle"
    /\ Admitted([call |-> "market", side |-> side, price |-> None, qty |-> qty])
    /\ Advance
    /\ LET o == [id |-> Len(submitted) + 1, side |-> side, price |-> None, qty |-> qty]
       IN  /\ order' = o
           /\ m_order' = o
           /\ submitted' = Append(submitted, [call |-> "market", side |-> side,
                                              price |-> None, qty |-> qty])
    /\ call' = "market"
    /\ pc' = "outer"
    /\ snap' = NoSnap
    /\ UNCHANGED <<bids, asks, bids_prices, asks_prices, trades, best_price, result, cleared>>

\* ---- the outer loop conditions of the four _match_* functions -----------
\* variant of BuyLoopGuard: a limit buy crosses only a strictly lower ask
BuyLoopGuardStrict ==
    /\ m_order.qty > 0
    /\ asks_prices # <<>>
    /\ (call = "limit" => asks_prices[1] < m_order.price)

BuyLoopGuard ==
    /\ m_order.qty > 0
    /\ asks_prices # <<>>
    /\ (call = "limit" => asks_prices[1] <= m_order.price)

\* variant of SellLoopGuard: the limit price is not looked at
SellLoopGuardNoLimit ==
    /\ m_order.qty > 0
    /\ bids_prices # <<>>

SellLoopGuard ==
    /\ m_order.qty > 0
    /\ bids_prices # <<>>
    /\ (call = "limit" => bids_prices[1] >= m_order.price)

LoopGuard == IF order.side = "buy" THEN BuyLoopGuard ELSE SellLoopGuard

\* ---- _match_buy_limit / _match_buy_market -------------------------------
\* best_price = self.asks_prices[0]; q_deque = self.asks[best_price]
BuyEnterLevel ==
    /\ pc = "outer"
    /\ order.side = "buy"
    /\ BuyLoopGuard
    /\ best_price' = asks_prices[1]
    /\ asks' = Touch(asks, asks_prices[1])
    /\ pc' = "inner"
    /\ UNCHANGED <<bids, bids_prices, asks_prices, trades, call, order, m_order,
                   result, snap, todo, budget, submitted, cleared>>

\* one pass of `while q_deque and order.qty > 0`
BuyFill ==
    /\ pc = "inner"
    /\ order.side = "buy"
    /\ asks[best_price] # <<>>
    /\ m_order.qty > 0
    /\ LET top       == Head(asks[best_price])
           trade_qty == TradeQty(m_order, top)
       IN  /\ trades' = Append(trades, BuyTrade(m_order, top, best_price))
           /\ m_order' = [m_order EXCEPT !.qty = @ - trade_qty]
           /\ asks' = [asks EXCEPT ![best_price] = FillQueue(@, trade_qty)]
    /\ UNCHANGED <<bids, bids_prices, asks_prices, pc, call, order, best_price,
                   result, snap, todo, budget, submitted, cleared>>

\* the inner loop is left: self._remove_price_if_empty(self.asks, ...)
BuyLeaveLevel ==
    /\ pc = "inner"
    /\ order.side = "buy"
    /\ ~(asks[best_price] # <<>> /\ m_order.qty > 0)
    /\ LET r == RemovePriceIfEmpty(asks, asks_prices, best_price)
       IN  /\ asks' = r.map
           /\ asks_prices' = r.list
    /\ pc' = "outer"
    /\ UNCHANGED <<bids, bids_prices, trades, call, order, m_order, best_price,
                   result, snap, todo, budget, submitted, cleared>>

\* ---- _match_sell_limit / _match_sell_market -----------------------------
SellEnterLevel ==
    /\ pc = "outer"
    /\ order.side # "buy"
    /\ SellLoopGuard
    /\ best_price' = bids_prices[1]
    /\ bids' = Touch(bids, bids_prices[1])
    /\ pc' = "inner"
    /\ UNCHANGED <<asks, bids_prices, asks_prices, trades, call, order, m_order,
                   result, snap, todo, budget, submitted, cleared>>

SellFill ==
    /\ pc = "inner"
    /\ order.side # "buy"
    /\ bids[best_price] # <<>>
    /\ m_order.qty > 0
    /\ LET top       == Head(bids[best_price])
           trade_qty == TradeQty(m_order, top)
       IN  /\ trades' = Append(trades, SellTrade(m_order, top, best_price))
           /\ m_order' = [m_order EXCEPT !.qty = @ - trade_qty]
           /\ bids' = [bids EXCEPT ![best_price] = FillQueue(@, trade_qty)]
    /\ UNCHANGED <<asks, bids_prices, asks_prices, pc, call, order, best_price,
                   result, snap, todo, budget, submitted, cleared>>

SellLeaveLevel ==
    /\ pc = "inner"
    /\ order.side # "buy"
    /\ ~(bids[best_price] # <<>> /\ m_order.qty > 0)
    /\ LET r == RemovePriceIfEmpty(bids, bids_prices, best_price)
       IN  /\ bids' = r.map
           /\ bids_prices' = r.list
    /\ pc' = "outer"
    /\ UNCHANGED <<asks, asks_prices, trades, call, order, m_order, best_price,
                   result, snap, todo, budget, submitted, cleared>>

\* ---- the _match_* function returns --------------------------------------
\* add_limit_order, lines 59-62 / 65-68.  The test reads the caller's `order`:
\* _match_* rebinds only its own local name with order._replace(...).
ReturnLimit ==
    /\ pc = "outer"
    /\ call = "limit"
    /\ ~LoopGuard
    /\ IF order.qty > 0
       THEN IF order.side = "buy"
            THEN /\ bids' = [Touch(bids, order.price) EXCEPT ![order.price] = Append(@, order)]
                 /\ bids_prices' = InsertPrice(bids_prices, order.price, TRUE)
                 /\ UNCHANGED <<asks, asks_prices>>
            ELSE /\ asks' = [Touch(asks, order.price) EXCEPT ![order.price] = Append(@, order)]
                 /\ asks_prices' = InsertPrice(asks_prices, order.price, FALSE)
                 /\ UNCHANGED <<bids, bids_prices>>
       ELSE UNCHANGED <<bids, asks, bids_prices, asks_prices>>
    /\ pc' = "idle"
    /\ call' = "none"
    /\ order' = NoOrder
    /\ m_order' = NoOrder
    /\ best_price' = None
    /\ result' = [id |-> order.id, error |-> "none"]
    /\ UNCHANGED <<trades, snap, todo, budget, submitted, cleared>>

\* variant of ReturnMarket: what is left of the order is stored as add_limit_order does
ReturnMarketRests ==
    /\ pc = "outer"
    /\ call = "market"
    /\ ~LoopGuard
    /\ IF m_order.qty > 0
       THEN IF order.side = "buy"
            THEN /\ bids' = [Touch(bids, order.price) EXCEPT ![order.price] = Append(@, m_order)]
                 /\ bids_prices' = InsertPrice(bids_prices, order.price, TRUE)
                 /\ UNCHANGED <<asks, asks_prices>>
            ELSE /\ asks' = [Touch(asks, order.price) EXCEPT ![order.price] = Append(@, m_order)]
                 /\ asks_prices' = InsertPrice(asks_prices, order.price, FALSE)
                 /\ UNCHANGED <<bids, bids_prices>>
       ELSE UNCHANGED <<bids, asks, bids_prices, asks_prices>>
    /\ pc' = "idle"
    /\ call' = "none"
    /\ order' = NoOrder
    /\ m_order' = NoOrder
    /\ best_price' = None
    /\ result' = [id |-> order.id, error |-> "none"]
    /\ UNCHANGED <<trades, snap, todo, budget, submitted, cleared>>

\* add_market_order, line 78: what is left of the order is dropped
ReturnMarket ==
    /\ pc = "outer"
    /\ call = "market"
    /\ ~LoopGuard
    /\ pc' = "idle"
    /\ call' = "none"
    /\ order' = NoOrder
    /\ m_order' = NoOrder
    /\ best_price' = None
    /\ result' = [id |-> order.id, error |-> "none"]
    /\ UNCHANGED <<bids, asks, bids_prices, asks_prices, trades, snap, todo, budget,
                   submitted, cleared>>

\* ---- snapshot -----------------------------------------------------------
Max(a, b) == IF a >= b THEN a ELSE b

\* the Python slice s[:depth]
Slice(s, depth) ==
    IF depth >= 0 THEN SubSeq(s, 1, Min(depth, Len(s)))
                  ELSE SubSeq(s, 1, Max(Len(s) + depth, 0))

\* sum(o.qty for o in q_deque)
RECURSIVE LevelQty(_)
LevelQty(q_deque) ==
    IF q_deque = <<>> THEN 0 ELSE Head(q_deque).qty + LevelQty(Tail(q_deque))

\* [(p, sum(o.qty for o in price_map[p])) for p in price_list[:depth]]
SideView(price_map, price_list, depth) ==
    LET ps == Slice(price_list, depth)
    IN  [k \in 1..Len(ps) |->
            <<ps[k], IF ps[k] \in DOMAIN price_map THEN LevelQty(price_map[ps[k]]) ELSE 0>>]

\* the level map after price_map[p] was read for every p of price_list[:depth]
Touched(price_map, price_list, depth) ==
    LET ps == Slice(price_list, depth)
    IN  [k \in (DOMAIN price_map) \cup {ps[j] : j \in 1..Len(ps)} |->
            IF k \in DOMAIN price_map THEN price_map[k] ELSE <<>>]

Snapshot(depth) ==
    /\ pc = "idle"
    /\ snap' = [taken |-> TRUE, depth |-> depth,
                bids  |-> SideView(bids, bids_prices, depth),
                asks  |-> SideView(asks, asks_prices, depth)]
    /\ bids' = Touched(bids, bids_prices, depth)
    /\ asks' = Touched(asks, asks_prices, depth)
    /\ UNCHANGED <<bids_prices, asks_prices, trades, pc, call, order, m_order,
                   best_price, result, todo, budget, submitted, cleared>>

\* ---- clear_trades -------------------------------------------------------
\* variant of ClearTrades: the whole book is emptied with the log
ClearTradesResetsBook ==
    /\ pc = "idle"
    /\ trades' = <<>>
    /\ cleared' = TRUE
    /\ snap' = NoSnap
    /\ bids' = <<>>
    /\ asks' = <<>>
    /\ bids_prices' = <<>>
    /\ asks_prices' = <<>>
    /\ UNCHANGED <<pc, call, order, m_order, best_price, result, todo, budget, submitted>>

ClearTrades ==
    /\ pc = "idle"
    /\ trades' = <<>>
    /\ cleared' = TRUE
    /\ snap' = NoSnap
    /\ UNCHANGED <<bids, asks, bids_prices, asks_prices, pc, call, order, m_order,
                   best_price, result, todo, budget, submitted>>

\* ---- specification ------------------------------------------------------
CallStep ==
    \/ BuyEnterLevel
    \/ BuyFill
    \/ BuyLeaveLevel
    \/ SellEnterLevel
    \/ SellFill
    \/ SellLeaveLevel
    \/ ReturnLimit
    \/ ReturnMarket

Next ==
    \/ \E side \in Sides, price \in Prices, qty \in Qtys : AddLimitOrder(side, price, qty)
    \/ \E side \in Sides, qty \in Qtys : AddMarketOrder(side, qty)
    \/ CallStep
    \/ \E depth \in Depths : Snapshot(depth)
    \/ ClearTrades

Spec == Init /\ [][Next]_vars

\* The interpreter keeps executing a call that has started.
FairSpec == Spec /\ WF_vars(CallStep)

\* ---- the demo of __main__ ------------------------------------------------
\* for p in [99.5, 100.0, 100.5]: add_limit_order("sell", p, 100);
\* add_limit_order("buy", p - 1, 100); then add_market_order("buy", 50)
DemoCalls ==
    << [call |-> "limit",  side |-> "sell", price |-> 199,  qty |-> 100],
       [call |-> "limit",  side |-> "buy",  price |-> 197,  qty |-> 100],
       [call |-> "limit",  side |-> "sell", price |-> 200,  qty |-> 100],
       [call |-> "limit",  side |-> "buy",  price |-> 198,  qty |-> 100],
       [call |-> "limit",  side |-> "sell", price |-> 201,  qty |-> 100],
       [call |-> "limit",  side |-> "buy",  price |-> 199,  qty |-> 100],
       [call |-> "market", side |-> "buy",  price |-> None, qty |-> 50] >>

\* the next call of the script is made
ScriptedCall ==
    /\ todo # <<>>
    /\ IF Head(todo).call = "limit"
       THEN AddLimitOrder(Head(todo).side, Head(todo).price, Head(todo).qty)
       ELSE AddMarketOrder(Head(todo).side, Head(todo).qty)

DemoInit ==
    /\ bids = <<>>
    /\ asks = <<>>
    /\ bids_prices = <<>>
    /\ asks_prices = <<>>
    /\ trades = <<>>
    /\ pc = "idle"
    /\ call = "none"
    /\ order = NoOrder
    /\ m_order = NoOrder
    /\ best_price = None
    /\ result = NoResult
    /\ snap = NoSnap
    /\ todo = DemoCalls
    /\ budget = DemoExtra
    /\ submitted = <<>>
    /\ cleared = FALSE

DemoNext ==
    \/ ScriptedCall
    \/ Next

\* the book is used as the demo uses it, and then further
DemoSpec == DemoInit /\ [][DemoNext]_vars

\* ---- callers that also pass arguments outside the documented domain -----
AddLimitOrderInvalid ==
    \/ \E side \in BadSides, price \in Prices, qty \in Qtys : AddLimitOrder(side, price, qty)
    \/ \E side \in Sides, price \in Prices, qty \in BadQtys : AddLimitOrder(side, price, qty)

AddMarketOrderInvalid ==
    \/ \E side \in BadSides, qty \in Qtys : AddMarketOrder(side, qty)
    \/ \E side \in Sides, qty \in BadQtys : AddMarketOrder(side, qty)

NextAnyInput ==
    \/ Next
    \/ AddLimitOrderInvalid
    \/ AddMarketOrderInvalid

SpecAnyInput == Init /\ [][NextAnyInput]_vars

\* ---- vocabulary of the properties ---------------------------------------
Idle == pc = "idle"

InList(price_list, price) == \E k \in 1..Len(price_list) : price_list[k] = price

\* the orders stored in the queues of a level map
Resting(price_map) ==
    UNION {{price_map[p][k] : k \in 1..Len(price_map[p])} : p \in DOMAIN price_map}

RECURSIVE SumQty(_)
SumQty(S) == IF S = {} THEN 0 ELSE LET o == CHOOSE x \in S : TRUE
                                   IN  o.qty + SumQty(S \ {o})

TotalQty(price_map) == SumQty(Resting(price_map))

Names(t, id) == t.buy_id = id \/ t.sell_id = id

\* total quantity of the trades of the log that name order id
RECURSIVE SumTrades(_, _)
SumTrades(log, id) ==
    IF log = <<>> THEN 0
    ELSE (IF Names(Head(log), id) THEN Head(log).qty ELSE 0) + SumTrades(Tail(log), id)

\* the quantity with which order id rests in a level map (0: it does not rest)
RestingQty(price_map, id) == SumQty({o \in Resting(price_map) : o.id = id})

MaxPrice(S) == CHOOSE p \in S : \A q \in S : q <= p

MinPrice(S) == CHOOSE p \in S : \A q \in S : q >= p

\* a step of a running call in which a resting order is filled
IsFill == pc = "inner" /\ pc' = "inner" /\ m_order'.qty # m_order.qty

\* the side the running call trades against, before and after the step
OppBook  == IF order.side = "buy" THEN asks ELSE bids

OppBookNext == IF order.side = "buy" THEN asks' ELSE bids'

\* ---- C1 ------------------------------------------------------------------
\* C1: between calls, a price is in a side's price list if and only if the
\* side's level map has a key for that price that holds a non-empty queue.
C1_NoEmptyLevel ==
    Idle =>
        /\ \A p \in Prices : InList(bids_prices, p) <=> (p \in DOMAIN bids /\ bids[p] # <<>>)
        /\ \A p \in Prices : InList(asks_prices, p) <=> (p \in DOMAIN asks /\ asks[p] # <<>>)

\* ---- C2 ------------------------------------------------------------------
\* C2: every call of add_limit_order / add_market_order that has started
\* returns: its matching loop is left after finitely many steps.
C2_CallsReturn == (pc # "idle") ~> (pc = "idle")

\* ---- C3 ------------------------------------------------------------------
\* C3: when add_limit_order returns, the order rests (on its own side, at its
\* limit price) with exactly its quantity minus the quantity of the trades of
\* this call, and it does not rest at all when that is zero.
C3_ReturnStep ==
    (pc = "outer" /\ call = "limit" /\ pc' = "idle") =>
        LET left == order.qty - SumTrades(trades', order.id)
            own  == IF order.side = "buy" THEN bids' ELSE asks'
            opp  == IF order.side = "buy" THEN asks' ELSE bids'
        IN  /\ RestingQty(opp, order.id) = 0
            /\ RestingQty(own, order.id) = left
            /\ left > 0 =>
                 /\ order.price \in DOMAIN own
                 /\ \E k \in 1..Len(own[order.price]) : own[order.price][k].id = order.id
            /\ left = 0 => ~\E o \in Resting(own) : o.id = order.id

C3_RestsWithResidual == [][C3_ReturnStep]_vars

\* ---- C4 ------------------------------------------------------------------
\* C4: quantity conservation.  While the log was never cleared every trade has
\* a positive quantity and the trades naming an order sum to at most the
\* quantity it was submitted with; a fill trades at most the residual of the
\* incoming and of the resting order, and an order that a fill completes has
\* traded exactly its submitted quantity.
C4_SumWithinSubmitted ==
    ~cleared =>
        /\ \A k \in 1..Len(trades) : trades[k].qty > 0
        /\ \A id \in 1..Len(submitted) : SumTrades(trades, id) <= submitted[id].qty

C4_FillStep ==
    (IsFill /\ ~cleared) =>
        LET top == Head(OppBook[best_price])
            t   == trades'[Len(trades')]
        IN  /\ t.qty > 0
            /\ t.qty <= m_order.qty
            /\ t.qty <= top.qty
            /\ m_order'.qty = 0 => SumTrades(trades', m_order.id) = submitted[m_order.id].qty
            /\ t.qty = top.qty => SumTrades(trades', top.id) = submitted[top.id].qty

C4_QuantityConservation == []C4_SumWithinSubmitted /\ [][C4_FillStep]_vars

\* ---- C5 ------------------------------------------------------------------
\* C5: between calls best_bid() is None exactly when no buy order rests and is
\* otherwise the highest price of a resting buy order; best_ask() likewise with
\* the lowest price of a resting sell order.
C5_BestPrices ==
    Idle =>
        LET bidsAt == {o.price : o \in {x \in Resting(bids) : x.qty > 0}}
            asksAt == {o.price : o \in {x \in Resting(asks) : x.qty > 0}}
        IN  /\ (best_bid = None) <=> (Resting(bids) = {})
            /\ Resting(bids) # {} => best_bid = MaxPrice(bidsAt)
            /\ (best_ask = None) <=> (Resting(asks) = {})
            /\ Resting(asks) # {} => best_ask = MinPrice(asksAt)

\* ---- C6 ------------------------------------------------------------------
\* C6: from the empty book, add_limit_order(sell, 100, 10) then
\* add_limit_order(buy, 100, 4) leave one trade (100, 4), one resting ask of 6
\* at 100, best_ask() = 100 and best_bid() = None with no resting bid
\* (the price 100 is 200 halves).
RoundTripCalls ==
    << [call |-> "limit", side |-> "sell", price |-> 200, qty |-> 10],
       [call |-> "limit", side |-> "buy",  price |-> 200, qty |-> 4] >>

C6_RoundTrip ==
    (Idle /\ submitted = RoundTripCalls /\ ~cleared) =>
        /\ trades = << [buy_id |-> 2, sell_id |-> 1, price |-> 200, qty |-> 4] >>
        /\ Resting(asks) = {[id |-> 1, side |-> "sell", price |-> 200, qty |-> 6]}
        /\ best_ask = 200
        /\ best_bid = None
        /\ Resting(bids) = {}

\* ---- C7 ------------------------------------------------------------------
\* C7: a market order whose quantity exceeds the total quantity resting on the
\* opposing side returns having traded all of that quantity, with the opposing
\* level map and price list empty and nothing of the order on the book.
\* by how much the order can exceed the opposing quantity
Excess == 1..(CHOOSE q \in Qtys : \A r \in Qtys : r <= q)

OppOf(side, b, a) == IF side = "buy" THEN a ELSE b

C7_Start(id, excess) ==
    /\ pc = "outer"
    /\ call = "market"
    /\ order.id = id
    /\ m_order.qty = order.qty
    /\ order.qty = TotalQty(OppBook) + excess

C7_Done(id, excess) ==
    /\ Idle
    /\ Len(submitted) = id
    /\ SumTrades(trades, id) = submitted[id].qty - excess
    /\ OppOf(submitted[id].side, bids, asks) = <<>>
    /\ OppOf(submitted[id].side, bids_prices, asks_prices) = <<>>
    /\ RestingQty(bids, id) = 0
    /\ RestingQty(asks, id) = 0

C7_MarketSweep ==
    \A id \in 1..MaxOrders : \A excess \in Excess :
        C7_Start(id, excess) ~> C7_Done(id, excess)

\* ---- C8 ------------------------------------------------------------------
\* C8: FIFO time priority.  A fill trades with the earliest submitted order of
\* the level; when the incoming quantity is less than that order's residual
\* the order stays at the head with the reduced quantity and the rest of the
\* queue is untouched, otherwise it is filled completely and leaves the queue.
\* While an order waits behind another one, no trade has named it as the
\* resting party.
C8_FillStep ==
    IsFill =>
        LET q     == OppBook[best_price]
            q2    == OppBookNext[best_price]
            A     == CHOOSE o \in {q[k] : k \in 1..Len(q)} :
                         \A k \in 1..Len(q) : o.id <= q[k].id
            t     == trades'[Len(trades')]
            maker == IF order.side = "buy" THEN t.sell_id ELSE t.buy_id
        IN  /\ maker = A.id
            /\ IF m_order.qty < A.qty
               THEN /\ t.qty = m_order.qty
                    /\ q2 = <<[A EXCEPT !.qty = A.qty - m_order.qty]>> \o Tail(q)
               ELSE /\ t.qty = A.qty
                    /\ q2 = Tail(q)

\* a trade in which order id was the resting party: the other party came later
MakerTrade(t, id) == (t.buy_id = id /\ t.sell_id > id) \/ (t.sell_id = id /\ t.buy_id > id)

C8_BehindUntouched ==
    ~cleared =>
        \A price_map \in {bids, asks} : \A p \in DOMAIN price_map :
            \A k \in 2..Len(price_map[p]) :
                /\ price_map[p][k - 1].id < price_map[p][k].id
                /\ ~\E j \in 1..Len(trades) : MakerTrade(trades[j], price_map[p][k].id)

C8_FIFO == []C8_BehindUntouched /\ [][C8_FillStep]_vars

\* A was filled in part and keeps the head of its queue, B behind it is untouched
C8_Witness ==
    \E p \in DOMAIN bids :
        /\ Len(bids[p]) >= 2
        /\ \E j \in 1..Len(trades) : MakerTrade(trades[j], bids[p][1].id)
        /\ bids[p][1].qty < submitted[bids[p][1].id].qty
        /\ SumTrades(trades, bids[p][2].id) = 0

\* ---- C9 ------------------------------------------------------------------
\* C9: every fill appends exactly one Trade; its price is the price of the
\* level of the resting order, which is the limit price that order was
\* submitted with, and its quantity is min(incoming residual, resting
\* residual).  Nothing but a fill appends to the log.
C9_Step ==
    /\ IsFill =>
         LET top == Head(OppBook[best_price])
             t   == trades'[Len(trades')]
         IN  /\ trades' = Append(trades, t)
             /\ t.price = best_price
             /\ t.price = top.price
             /\ t.price = submitted[top.id].price
             /\ t.qty = Min(m_order.qty, top.qty)
             /\ t.buy_id  = (IF order.side = "buy" THEN m_order.id ELSE top.id)
             /\ t.sell_id = (IF order.side = "buy" THEN top.id ELSE m_order.id)
    /\ (trades' # trades /\ trades' # <<>>) => IsFill

C9_MakerPrice == [][C9_Step]_vars

\* a limit order traded at a price that is not its own limit price
C9_Witness ==
    \E k \in 1..Len(trades) :
        LET t     == trades[k]
            taker == IF t.buy_id > t.sell_id THEN t.buy_id ELSE t.sell_id
        IN  /\ submitted[taker].call = "limit"
            /\ submitted[taker].price # t.price

\* ---- C10 -----------------------------------------------------------------
\* C10: no step of add_market_order changes the level map or the price list of
\* the order's own side, and every resting order was submitted as a limit
\* order and carries a price.
C10_Step ==
    (call = "market" \/ call' = "market") =>
        LET side == IF call = "market" THEN order.side ELSE order'.side
        IN  IF side = "buy"
            THEN bids' = bids /\ bids_prices' = bids_prices
            ELSE asks' = asks /\ asks_prices' = asks_prices

C10_NoMarketResting ==
    \A o \in Resting(bids) \cup Resting(asks) :
        /\ submitted[o.id].call = "limit"
        /\ o.price # None

C10_MarketNeverRests == []C10_NoMarketResting /\ [][C10_Step]_vars

\* a market order has returned filled in part, with orders resting on its own side
C10_Witness ==
    /\ Idle
    /\ submitted # <<>>
    /\ LET id == Len(submitted)
           s  == submitted[id]
       IN  /\ s.call = "market"
           /\ SumTrades(trades, id) > 0
           /\ SumTrades(trades, id) < s.qty
           /\ Resting(IF s.side = "buy" THEN bids ELSE asks) # {}

\* ---- C11 -----------------------------------------------------------------
\* C11: a submission whose side is neither buy nor sell fails with InvalidSide
\* and leaves both level maps, both price lists and the trade log as they were.
BookUnchanged ==
    /\ bids' = bids /\ DOMAIN bids' = DOMAIN bids
    /\ asks' = asks /\ DOMAIN asks' = DOMAIN asks
    /\ bids_prices' = bids_prices
    /\ asks_prices' = asks_prices

C11_Step ==
    (pc # "idle" /\ order.side \notin Sides) =>
        /\ BookUnchanged
        /\ trades' = trades
        /\ pc' = "idle" => result'.error = "InvalidSide"

C11_InvalidSideRejected == [][C11_Step]_vars

\* ---- C12 -----------------------------------------------------------------
\* C12: a submission with a quantity <= 0 is rejected with InvalidQuantity
\* (no order id is returned as if it was accepted) and leaves the book and the
\* trade log as they were.
C12_Step ==
    (pc # "idle" /\ order.qty <= 0) =>
        /\ BookUnchanged
        /\ trades' = trades
        /\ pc' = "idle" => (result'.error = "InvalidQuantity" /\ result'.id # order.id)

C12_InvalidQuantityRejected == [][C12_Step]_vars

\* ---- C13 -----------------------------------------------------------------
\* C13: snapshot(depth) leaves both level maps (with their sets of keys), both
\* price lists and the trade log as they were.
C13_Step ==
    (pc = "idle" /\ pc' = "idle" /\ snap'.taken) =>
        /\ bids' = bids /\ DOMAIN bids' = DOMAIN bids
        /\ asks' = asks /\ DOMAIN asks' = DOMAIN asks
        /\ bids_prices' = bids_prices
        /\ asks_prices' = asks_prices
        /\ trades' = trades

C13_SnapshotReadOnly == [][C13_Step]_vars

\* ---- C14 -----------------------------------------------------------------
\* C14: snapshot(depth) with depth <= 0 returns empty bids and empty asks.
C14_NonPositiveDepthEmpty ==
    (snap.taken /\ snap.depth <= 0) => (snap.bids = <<>> /\ snap.asks = <<>>)

\* ---- C15 -----------------------------------------------------------------
\* the demo's seven calls have returned and the log still holds their trades
DemoDone == Idle /\ submitted = DemoCalls /\ ~cleared

QtyAt(price_map, price) ==
    IF price \in DOMAIN price_map THEN LevelQty(price_map[price]) ELSE 0

\* the trades of the log that name order id
TradesOf(id) == {k \in 1..Len(trades) : Names(trades[k], id)}

IsPrefix(a, b) == Len(a) <= Len(b) /\ SubSeq(b, 1, Len(a)) = a

C16_Step ==
    /\ ClearTrades => (trades' = <<>> /\ BookUnchanged)
    /\ ~IsPrefix(trades, trades') =>
          /\ pc = "idle" /\ pc' = "idle"
          /\ submitted' = submitted
          /\ trades' = <<>>
          /\ BookUnchanged

C16_ClearTrades == [][C16_Step]_vars

\* the log was cleared after a resting order had been filled in part
C16_Witness ==
    /\ cleared
    /\ trades = <<>>
    /\ \E o \in Resting(bids) \cup Resting(asks) : o.qty < submitted[o.id].qty

\* ---- C17 -----------------------------------------------------------------
\* C17: between calls, when both sides hold resting orders the highest resting
\* bid price is strictly below the lowest resting ask price.
C17_Uncrossed ==
    (Idle /\ Resting(bids) # {} /\ Resting(asks) # {}) =>
        MaxPrice({o.price : o \in Resting(bids)}) < MinPrice({o.price : o \in Resting(asks)})

\* ---- C18 -----------------------------------------------------------------
\* C18: a limit buy never trades above its limit and a limit sell never below
\* it; every fill is made at the best price at which an opposing order rests;
\* the trade prices of one submission are non-decreasing for a buy and
\* non-increasing for a sell.
C18_FillStep ==
    IsFill =>
        LET t == trades'[Len(trades')]
        IN  /\ call = "limit" =>
                  (IF order.side = "buy" THEN t.price <= order.price
                                         ELSE t.price >= order.price)
            /\ \A o \in Resting(OppBook) :
                  (IF order.side = "buy" THEN t.price <= o.price
                                         ELSE t.price >= o.price)

C18_Monotone ==
    \A k \in 1..(Len(trades) - 1) :
        LET t == trades[k]
            u == trades[k + 1]
        IN  /\ (t.buy_id = u.buy_id /\ t.buy_id > t.sell_id /\ u.buy_id > u.sell_id)
                  => t.price <= u.price
            /\ (t.sell_id = u.sell_id /\ t.sell_id > t.buy_id /\ u.sell_id > u.buy_id)
                  => t.price >= u.price

C18_PricePriority == []C18_Monotone /\ [][C18_FillStep]_vars

\* a limit buy has traded at a better level and then at a worse one
C18_Witness ==
    \E k \in 1..(Len(trades) - 1) :
        /\ trades[k].buy_id = trades[k + 1].buy_id
        /\ trades[k].buy_id > trades[k].sell_id
        /\ submitted[trades[k].buy_id].call = "limit"
        /\ trades[k].price < trades[k + 1].price

\* ---- C19 -----------------------------------------------------------------
\* C19: bids_prices is strictly descending and asks_prices strictly ascending,
\* and _insert_price of a price that is in the list leaves the list unchanged.
C19_PriceListsSorted ==
    /\ \A k \in 1..(Len(bids_prices) - 1) : bids_prices[k] > bids_prices[k + 1]
    /\ \A k \in 1..(Len(asks_prices) - 1) : asks_prices[k] < asks_prices[k + 1]
    /\ \A k \in 1..Len(bids_prices) :
          InsertPrice(bids_prices, bids_prices[k], TRUE) = bids_prices
    /\ \A k \in 1..Len(asks_prices) :
          InsertPrice(asks_prices, asks_prices[k], FALSE) = asks_prices

\* two orders rest at one price of a bid list of several prices
C19_Witness ==
    /\ Len(bids_prices) >= 2
    /\ \E p \in DOMAIN bids : Len(bids[p]) >= 2

\* ---- C20 -----------------------------------------------------------------
\* C20: every stored order has a quantity > 0; a resting order that a fill
\* brings to zero leaves its queue in that step, and an order leaves the book
\* in no other step.
AllResting == Resting(bids) \cup Resting(asks)

C20_Positive == \A o \in AllResting : o.qty > 0

C20_Step ==
    \A o \in AllResting :
        LET gone == ~\E n \in Resting(bids') \cup Resting(asks') : n.id = o.id
            hit  == IsFill /\ Head(OppBook[best_price]) = o
                           /\ trades'[Len(trades')].qty = o.qty
        IN  gone <=> hit

C20_PositiveResting == []C20_Positive /\ [][C20_Step]_vars

\* an order was filled completely and has left the book
C20_Witness ==
    \E k \in 1..Len(trades) :
        LET t     == trades[k]
            maker == IF t.buy_id < t.sell_id THEN t.buy_id ELSE t.sell_id
        IN  /\ t.qty = submitted[maker].qty
            /\ RestingQty(bids, maker) = 0
            /\ RestingQty(asks, maker) = 0

====
